---- MODULE Spec2Model ----
(***************************************************************************)
(* Model of regularized_glm/stats.py: the post-fit statistics of a         *)
(* penalized generalized linear model.  Every function of the file is a    *)
(* pure function of its arguments, so a behaviour is one call: Init draws  *)
(* the function and its arguments, and the function's action runs the      *)
(* whole body and records what the caller observes (a returned value or a  *)
(* raised exception, with the source line that raised it).                 *)
(*                                                                         *)
(* Numbers.  float64 values are modelled as exact rationals extended with  *)
(* NaN, +inf and -inf, with the IEEE-754 rules numpy applies to *, /, +    *)
(* and - (x/0 is +-inf, 0/0 is NaN, inf-inf is NaN, 0*inf is NaN; numpy    *)
(* warns and does not raise).  Rounding and the sign of zero are not       *)
(* modelled.                                                               *)
(***************************************************************************)
EXTENDS Integers, Sequences, FiniteSets, TLC

VARIABLES pc, op, args, ret

vars == <<pc, op, args, ret>>

(***************************************************************************)
(* Bounds of the model.                                                    *)
(***************************************************************************)
\* longest response / predicted_response / prior_weights array
MaxLen == 3
\* largest degrees_of_freedom passed to the scale estimator
MaxDof == 2
\* largest |log_likelihood| passed to estimate_aic
MaxLL == 5
\* largest degrees_of_freedom passed to estimate_aic
MaxAicDof == 5

\* largest number of rows or columns of the design matrix, of columns of
\* the penalty square root, and longest weights vector
MaxDim == 3
\* largest number of rows of the penalty square root
MaxPenaltyRows == 2
\* largest singular value the SVD routine returns, in units of the smallest
\* nonzero one
MaxSingularValue == 4
\* 1 / np.finfo(dtype).eps in the same scaled-down number system (2^52 for
\* float64): the tolerance test s > max * N * eps is s * EpsInv > max * N
EpsInv == 8

\* values of the entries of response and predicted_response
Vals == {0, 2}
\* values of the entries of prior_weights
WeightVals == {1, 2}

(***************************************************************************)
(* float64 arithmetic.                                                     *)
(***************************************************************************)
Abs(x) == IF x < 0 THEN -x ELSE x

RECURSIVE GCD(_, _)
GCD(a, b) == IF b = 0 THEN a ELSE GCD(b, a % b)

\* the finite value n/d (d # 0), in lowest terms with a positive denominator
Fin(n, d) ==
  LET s == IF d < 0 THEN -1 ELSE 1
      g == GCD(Abs(n), Abs(d))
  IN  [k |-> "fin", n |-> (s * n) \div g, d |-> (s * d) \div g]

NaN == [k |-> "nan", n |-> 0, d |-> 1]

\* +inf (s = 1) and -inf (s = -1)
Inf(s) == [k |-> "inf", n |-> s, d |-> 1]

FromInt(i) == Fin(i, 1)

IsFinite(x) == x.k = "fin"

IsZero(x) == x.k = "fin" /\ x.n = 0

Sign(x) == IF x.n < 0 THEN -1 ELSE IF x.n > 0 THEN 1 ELSE 0

FNeg(x) == [x EXCEPT !.n = -x.n]

FAdd(x, y) ==
  IF x.k = "nan" \/ y.k = "nan" THEN NaN
  ELSE IF x.k = "inf" /\ y.k = "inf" THEN (IF x.n = y.n THEN x ELSE NaN)
  ELSE IF x.k = "inf" THEN x
  ELSE IF y.k = "inf" THEN y
  ELSE Fin(x.n * y.d + y.n * x.d, x.d * y.d)

FSub(x, y) == FAdd(x, FNeg(y))

FMul(x, y) ==
  IF x.k = "nan" \/ y.k = "nan" THEN NaN
  ELSE IF x.k = "inf" \/ y.k = "inf"
       THEN (IF IsZero(x) \/ IsZero(y) THEN NaN ELSE Inf(Sign(x) * Sign(y)))
  ELSE Fin(x.n * y.n, x.d * y.d)

FDiv(x, y) ==
  IF x.k = "nan" \/ y.k = "nan" THEN NaN
  ELSE IF x.k = "inf"
       THEN (IF y.k = "inf" THEN NaN
             ELSE Inf(x.n * (IF Sign(y) = 0 THEN 1 ELSE Sign(y))))
  ELSE IF y.k = "inf" THEN FromInt(0)
  ELSE IF y.n = 0 THEN (IF x.n = 0 THEN NaN ELSE Inf(Sign(x)))
  ELSE Fin(x.n * y.d, x.d * y.n)

\* np.sum of a one-dimensional array
RECURSIVE FSum(_)
FSum(v) == IF Len(v) = 0 THEN FromInt(0)
           ELSE FAdd(FSum(SubSeq(v, 1, Len(v) - 1)), v[Len(v)])

(***************************************************************************)
(* numpy broadcasting of two one-dimensional arrays (or of one axis of two *)
(* arrays): the lengths must agree unless one of them is 1.                *)
(***************************************************************************)
Broadcastable(a, b) == a = b \/ a = 1 \/ b = 1

BroadcastLen(a, b) == IF a = 1 THEN b ELSE a

\* element i of v after broadcasting v to a longer axis
At(v, i) == IF Len(v) = 1 THEN v[1] ELSE v[i]

\* what the caller sees when line `line` raises exception `kind`
Raise(kind, line) == [status |-> kind, line |-> line]

(***************************************************************************)
(* estimate_aic                                                            *)
(***************************************************************************)
\* Python's bool is an int: 2 * True = 2, 2 * False = 0
BoolAsInt(b) == IF b THEN 1 ELSE 0

\* the same with the "+ 1" of the parameter count left out
estimate_aic_NoParameterCount(log_likelihood, degrees_of_freedom, is_estimated_scale) ==
  (-2) * log_likelihood + 2 * degrees_of_freedom
    + 2 * BoolAsInt(is_estimated_scale)

estimate_aic(log_likelihood, degrees_of_freedom, is_estimated_scale) ==
  (-2) * log_likelihood + 2 * (degrees_of_freedom + 1)
    + 2 * BoolAsInt(is_estimated_scale)

AicArgs ==
  [log_likelihood : (-MaxLL)..MaxLL,
   degrees_of_freedom : 0..MaxAicDof,
   is_estimated_scale : BOOLEAN]

InitAic == /\ pc = "call"
           /\ op = "estimate_aic"
           /\ args \in AicArgs
           /\ ret = [status |-> "none"]

Call_estimate_aic ==
  /\ pc = "call"
  /\ op = "estimate_aic"
  /\ ret' = [status |-> "ok",
             value |-> estimate_aic(args.log_likelihood,
                                    args.degrees_of_freedom,
                                    args.is_estimated_scale)]
  /\ pc' = "done"
  /\ UNCHANGED <<op, args>>

NextAic == Call_estimate_aic

SpecAic == InitAic /\ [][NextAic]_vars

\* C3: once estimate_aic has returned, the value is
\*   -2*log_likelihood + 2*(degrees_of_freedom+1) + 2*(1 if is_estimated_scale else 0),
\* and it differs from the value for the same log_likelihood and
\* degrees_of_freedom with the flag flipped by exactly 2, the larger one being
\* the one with is_estimated_scale = true.
C3_AicIdentity ==
  (pc = "done" /\ op = "estimate_aic") =>
    LET ll == args.log_likelihood
        dof == args.degrees_of_freedom
        other == estimate_aic(ll, dof, ~args.is_estimated_scale)
    IN  /\ ret.status = "ok"
        /\ ret.value = 2 * dof + 2 - 2 * ll
                       + (IF args.is_estimated_scale THEN 2 ELSE 0)
        /\ IF args.is_estimated_scale
             THEN ret.value - other = 2
             ELSE other - ret.value = 2

\* an estimated-scale call with a nonzero log-likelihood has returned
C3_Witness ==
  /\ pc = "done" /\ op = "estimate_aic"
  /\ args.is_estimated_scale
  /\ args.log_likelihood = -3
  /\ args.degrees_of_freedom = 2
  /\ ret.value = 14

(***************************************************************************)
(* pearson_chi_square and estimate_scale                                   *)
(***************************************************************************)
\* the variance callables handed to pearson_chi_square: mu |-> mu,
\* mu |-> 1 (the Gaussian family's) and mu |-> mu^2 (the Gamma family's)
VarianceFns == {"identity", "constant", "mu_squared"}

\* variance(predicted_response), elementwise
variance(fn, mu) ==
  [i \in 1..Len(mu) |->
     IF fn = "identity" THEN mu[i]
     ELSE IF fn = "constant" THEN FromInt(1)
     ELSE FMul(mu[i], mu[i])]

Families == {"Binomial", "Poisson", "Gaussian", "Gamma"}

\* family.variance
FamilyVariance(family) ==
  IF family = "Gaussian" THEN "constant"
  ELSE IF family = "Gamma" THEN "mu_squared"
  ELSE "identity"

\* an integer array as a float64 array
AsFloats(v) == [i \in 1..Len(v) |-> FromInt(v[i])]

\* the same dividing by the number of observations, not by the residual
\* degrees of freedom
pearson_chi_square_DivideByN(response, predicted_response, prior_weights, variance_fn, degrees_of_freedom) ==
  LET n1 == Len(response)
      n2 == Len(predicted_response)
      nr == BroadcastLen(n1, n2)
      nw == Len(prior_weights)
      nc == BroadcastLen(nw, nr)
  IN  IF ~Broadcastable(n1, n2) THEN Raise("ValueError", 88)
      ELSE IF ~Broadcastable(nw, nr) \/ ~Broadcastable(nc, n2)
      THEN Raise("ValueError", 90)
      ELSE
        LET r == AsFloats(response)
            mu == AsFloats(predicted_response)
            w == AsFloats(prior_weights)
            residual == [i \in 1..nr |-> FSub(At(r, i), At(mu, i))]
            v == variance(variance_fn, mu)
            chi_square ==
              [i \in 1..BroadcastLen(nc, n2) |->
                 FDiv(FMul(At(w, i), FMul(At(residual, i), At(residual, i))),
                      At(v, i))]
        IN  [status |-> "ok", line |-> 91,
             value |-> FDiv(FSum(chi_square), FromInt(n1))]

pearson_chi_square(response, predicted_response, prior_weights, variance_fn, degrees_of_freedom) ==
  LET n1 == Len(response)
      n2 == Len(predicted_response)
      \* line 88: residual = response - predicted_response
      nr == BroadcastLen(n1, n2)
      nw == Len(prior_weights)
      \* line 90: prior_weights * residual ** 2, then / variance(...)
      nc == BroadcastLen(nw, nr)
  IN  IF ~Broadcastable(n1, n2) THEN Raise("ValueError", 88)
      ELSE IF ~Broadcastable(nw, nr) \/ ~Broadcastable(nc, n2)
      THEN Raise("ValueError", 90)
      ELSE
        LET r == AsFloats(response)
            mu == AsFloats(predicted_response)
            w == AsFloats(prior_weights)
            residual == [i \in 1..nr |-> FSub(At(r, i), At(mu, i))]
            \* line 89
            residual_degrees_of_freedom == n1 - degrees_of_freedom
            v == variance(variance_fn, mu)
            chi_square ==
              [i \in 1..BroadcastLen(nc, n2) |->
                 FDiv(FMul(At(w, i), FMul(At(residual, i), At(residual, i))),
                      At(v, i))]
        IN  [status |-> "ok", line |-> 91,
             value |-> FDiv(FSum(chi_square),
                            FromInt(residual_degrees_of_freedom))]

\* the same with Poisson missing from the fixed-dispersion families
estimate_scale_PoissonEstimated(family, response, predicted_response, prior_weights, degrees_of_freedom) ==
  IF family = "Binomial"
  THEN [status |-> "ok", line |-> 121,
        scale |-> FromInt(1), is_estimated_scale |-> FALSE]
  ELSE LET r == pearson_chi_square(response, predicted_response,
                                   prior_weights, FamilyVariance(family),
                                   degrees_of_freedom)
       IN  IF r.status # "ok" THEN r
           ELSE [status |-> "ok", line |-> 121,
                 scale |-> r.value, is_estimated_scale |-> TRUE]

estimate_scale(family, response, predicted_response, prior_weights, degrees_of_freedom) ==
  IF family \in {"Binomial", "Poisson"}
  THEN [status |-> "ok", line |-> 121,
        scale |-> FromInt(1), is_estimated_scale |-> FALSE]
  ELSE LET r == pearson_chi_square(response, predicted_response,
                                   prior_weights, FamilyVariance(family),
                                   degrees_of_freedom)
       IN  \* an exception of pearson_chi_square passes through to the caller
           IF r.status # "ok" THEN r
           ELSE [status |-> "ok", line |-> 121,
                 scale |-> r.value, is_estimated_scale |-> TRUE]

\* the arrays of length 1..MaxLen over S
Arrays(S) == UNION {[1..n -> S] : n \in 1..MaxLen}

InitScale ==
  /\ pc = "call"
  /\ ret = [status |-> "none"]
  /\ \/ /\ op = "pearson_chi_square"
        /\ args \in [response : Arrays(Vals),
                     predicted_response : Arrays(Vals),
                     prior_weights : Arrays(WeightVals),
                     variance : VarianceFns,
                     degrees_of_freedom : 0..MaxDof]
     \/ /\ op = "estimate_scale"
        /\ args \in [family : Families,
                     response : Arrays(Vals),
                     predicted_response : Arrays(Vals),
                     prior_weights : Arrays(WeightVals),
                     degrees_of_freedom : 0..MaxDof]

Call_pearson_chi_square ==
  /\ pc = "call"
  /\ op = "pearson_chi_square"
  /\ ret' = pearson_chi_square(args.response, args.predicted_response,
                               args.prior_weights, args.variance,
                               args.degrees_of_freedom)
  /\ pc' = "done"
  /\ UNCHANGED <<op, args>>

Call_estimate_scale ==
  /\ pc = "call"
  /\ op = "estimate_scale"
  /\ ret' = estimate_scale(args.family, args.response,
                           args.predicted_response, args.prior_weights,
                           args.degrees_of_freedom)
  /\ pc' = "done"
  /\ UNCHANGED <<op, args>>

NextScale == Call_pearson_chi_square \/ Call_estimate_scale

SpecScale == InitScale /\ [][NextScale]_vars

(***************************************************************************)
(* Claims about the scale estimator.                                       *)
(***************************************************************************)
\* the call is one of n observations: the three arrays have the same length
SameLengths ==
  /\ Len(args.response) = Len(args.predicted_response)
  /\ Len(args.response) = Len(args.prior_weights)

\* the integer value of variance_fn at the integer mu
VarianceAt(fn, mu) ==
  IF fn = "identity" THEN mu ELSE IF fn = "constant" THEN 1 ELSE mu * mu

\* prior_weights[i] * (response[i] - predicted[i])^2
WeightedSquare(i) ==
  args.prior_weights[i]
    * (args.response[i] - args.predicted_response[i])
    * (args.response[i] - args.predicted_response[i])

\* <<numerator, denominator>> of the sum over observations 1..k of
\* WeightedSquare(i) / VarianceAt(fn, predicted[i]), all variances nonzero
RECURSIVE PearsonSum(_, _)
PearsonSum(fn, k) ==
  IF k = 0 THEN <<0, 1>>
  ELSE LET acc == PearsonSum(fn, k - 1)
           v == VarianceAt(fn, args.predicted_response[k])
       IN  <<acc[1] * v + WeightedSquare(k) * acc[2], acc[2] * v>>

VarianceNonzero(fn) ==
  \A i \in 1..Len(args.predicted_response) :
    VarianceAt(fn, args.predicted_response[i]) # 0

\* the value is the rational q[1] / (q[2] * m)
IsQuotient(x, q, m) ==
  /\ x.k = "fin"
  /\ x.n * q[2] * m = q[1] * x.d

\* C9 as stated: with n_observations > degrees_of_freedom, pearson_chi_square
\* returns sum_i prior_weights[i] * (response[i] - predicted[i])^2 /
\* variance_fn(predicted)[i] divided by (n_observations - degrees_of_freedom),
\* and returns 0 whenever response equals predicted elementwise.
C9_ZeroWheneverEqual ==
  (/\ pc = "done" /\ op = "pearson_chi_square" /\ SameLengths
   /\ Len(args.response) > args.degrees_of_freedom) =>
    /\ ret.status = "ok"
    /\ VarianceNonzero(args.variance) =>
         IsQuotient(ret.value, PearsonSum(args.variance, Len(args.response)),
                    Len(args.response) - args.degrees_of_freedom)
    /\ args.response = args.predicted_response => ret.value = FromInt(0)

\* C9 amended: the same, the value being 0 for response equal to predicted
\* when variance_fn(predicted) is nonzero at every observation; where the
\* variance is 0 at an observation the value is not a finite number.
C9_ZeroWhenEqualAndVarianceNonzero ==
  (/\ pc = "done" /\ op = "pearson_chi_square" /\ SameLengths
   /\ Len(args.response) > args.degrees_of_freedom) =>
    /\ ret.status = "ok"
    /\ VarianceNonzero(args.variance) =>
         IsQuotient(ret.value, PearsonSum(args.variance, Len(args.response)),
                    Len(args.response) - args.degrees_of_freedom)
    /\ (args.response = args.predicted_response
          /\ VarianceNonzero(args.variance)) => ret.value = FromInt(0)
    /\ ~VarianceNonzero(args.variance) => ~IsFinite(ret.value)

\* a nonzero statistic has been returned: response [0,2,0], predicted
\* [2,2,2], weights [1,2,2], variance mu |-> mu, one degree of freedom:
\* (1*4/2 + 2*0/2 + 2*4/2) / (3 - 1) = 3
C9_Witness ==
  /\ pc = "done" /\ op = "pearson_chi_square"
  /\ args.response = <<0, 2, 0>>
  /\ args.predicted_response = <<2, 2, 2>>
  /\ args.prior_weights = <<1, 2, 2>>
  /\ args.variance = "identity"
  /\ args.degrees_of_freedom = 1
  /\ ret.status = "ok"
  /\ ret.value = FromInt(3)

\* C2: pearson_chi_square fails, returning no number, whenever the residual
\* degrees of freedom n_observations - degrees_of_freedom are not positive
\* (stated for calls that are well-formed otherwise: arrays of one length
\* and a nonzero variance at every observation).
C2_DegenerateResidualDoFFails ==
  (/\ pc = "done" /\ op = "pearson_chi_square"
   /\ SameLengths /\ VarianceNonzero(args.variance)
   /\ Len(args.response) - args.degrees_of_freedom <= 0) =>
    ret.status # "ok"

\* C1: estimate_scale returns (1.0, false) for Binomial and Poisson whatever
\* the other arguments are, and (pearson_chi_square(response, predicted,
\* prior_weights, family.variance, degrees_of_freedom), true) for any other
\* family (the exception of pearson_chi_square where it raises one).
C1_EstimateScaleDispatch ==
  (pc = "done" /\ op = "estimate_scale") =>
    IF args.family \in {"Binomial", "Poisson"}
    THEN /\ ret.status = "ok"
         /\ ret.scale = [k |-> "fin", n |-> 1, d |-> 1]
         /\ ret.is_estimated_scale = FALSE
    ELSE LET r == pearson_chi_square(args.response, args.predicted_response,
                                     args.prior_weights,
                                     FamilyVariance(args.family),
                                     args.degrees_of_freedom)
         IN  IF r.status = "ok"
             THEN /\ ret.status = "ok"
                  /\ ret.scale = r.value
                  /\ ret.is_estimated_scale = TRUE
             ELSE ret.status = r.status

\* a Poisson call has returned (1.0, false) on arrays pearson_chi_square
\* raises on (lengths 2 and 3 do not broadcast)
C1_Witness ==
  /\ pc = "done" /\ op = "estimate_scale"
  /\ args.family = "Poisson"
  /\ Len(args.response) = 2 /\ Len(args.predicted_response) = 3
  /\ pearson_chi_square(args.response, args.predicted_response,
                        args.prior_weights, FamilyVariance(args.family),
                        args.degrees_of_freedom).status = "ValueError"
  /\ ret.status = "ok"
  /\ ret.scale = FromInt(1)
  /\ ~ret.is_estimated_scale

(***************************************************************************)
(* _weighted_design_matrix_svd and get_effective_degrees_of_freedom        *)
(*                                                                         *)
(* np.linalg.qr and np.linalg.svd are library routines: the model keeps    *)
(* the shapes they return and takes the values from the call's arguments:  *)
(* svd_values are the singular values (non-increasing, non-negative) and   *)
(* svd_units[j] is the row of the unit entry of column j of the left       *)
(* factor, whose columns are orthonormal (here: distinct unit vectors).    *)
(***************************************************************************)
Min2(a, b) == IF a < b THEN a ELSE b

Max2(a, b) == IF a > b THEN a ELSE b

\* ndarray.max() of a non-empty one-dimensional array
ArrayMax(v) == CHOOSE x \in {v[i] : i \in 1..Len(v)} :
                 \A i \in 1..Len(v) : v[i] <= x

\* the positions a boolean mask selects, in order
RECURSIVE Selected(_)
Selected(mask) ==
  IF Len(mask) = 0 THEN <<>>
  ELSE LET front == Selected(SubSeq(mask, 1, Len(mask) - 1))
       IN  IF mask[Len(mask)] THEN Append(front, Len(mask)) ELSE front

\* an index expression with `nindices` boolean arrays or slices on an array
\* of `ndim` dimensions: more indices than dimensions is an IndexError
IndexableBy(ndim, nindices) == nindices <= ndim

\* rows of np.sqrt(weights[:, np.newaxis]) * design_matrix
WeightedRows(n_weights, X) == BroadcastLen(n_weights, X.rows)

\* rows of the R factor of the reduced QR factorization
RRows(n_weights, X) == Min2(WeightedRows(n_weights, X), X.cols)

\* rows of np.concatenate((R, sqrt_penalty_matrix))
StackedRows(n_weights, X, S) == RRows(n_weights, X) + S.rows

\* number of singular values of the economy SVD of the stacked matrix
SvdRank(n_weights, X, S) == Min2(StackedRows(n_weights, X, S), X.cols)

\* the call gets as far as np.linalg.svd
ReachesSvd(n_weights, X, S) ==
  Broadcastable(n_weights, X.rows) /\ X.cols = S.cols

\* X and S are shapes [rows, cols]; n_weights is the length of weights
weighted_design_matrix_svd(X, S, n_weights, svd_units, svd_values) ==
  \* line 21: (n_weights, 1) * (X.rows, X.cols) broadcasts or raises
  IF ~Broadcastable(n_weights, X.rows) THEN Raise("ValueError", 21)
  \* line 23: np.concatenate needs equal column counts
  ELSE IF X.cols # S.cols THEN Raise("ValueError", 23)
  ELSE
    LET n_covariates == X.cols
        stacked == StackedRows(n_weights, X, S)
        k == SvdRank(n_weights, X, S)
        \* lines 27-28, times eps (see EpsInv)
        svd_error == ArrayMax(svd_values) * Max2(X.rows, X.cols)
        \* line 29
        is_independent == [i \in 1..k |-> svd_values[i] * EpsInv > svd_error]
        kept == Selected(is_independent)
        \* line 30: U[:n_covariates, is_independent]
        U == [r \in 1..Min2(n_covariates, stacked) |->
                [c \in 1..Len(kept) |->
                   IF svd_units[kept[c]] = r THEN 1 ELSE 0]]
    IN  \* line 31: singular_values is one-dimensional and gets two indices
        IF ~IndexableBy(1, 2) THEN Raise("IndexError", 31)
        \* line 32: Vt[:, is_independent], a mask of length k on an axis
        \* of length n_covariates
        ELSE IF k # n_covariates THEN Raise("IndexError", 32)
        ELSE [status |-> "ok", line |-> 34,
              U |-> U,
              singular_values |-> [c \in 1..Len(kept) |-> svd_values[kept[c]]],
              Vt |-> [rows |-> k, cols |-> Len(kept)]]

\* np.sum(U * U), U a sequence of rows
RECURSIVE SumOfSquares(_)
SumOfSquares(row) ==
  IF Len(row) = 0 THEN 0
  ELSE SumOfSquares(SubSeq(row, 1, Len(row) - 1))
         + row[Len(row)] * row[Len(row)]

RECURSIVE get_effective_degrees_of_freedom(_)
get_effective_degrees_of_freedom(U) ==
  IF Len(U) = 0 THEN 0
  ELSE get_effective_degrees_of_freedom(SubSeq(U, 1, Len(U) - 1))
         + SumOfSquares(U[Len(U)])

Shapes(rowset, colset) == [rows : rowset, cols : colset]

\* what np.linalg.svd may return for a stacked matrix of the given shape
SvdValues(k) ==
  {v \in [1..k -> 0..MaxSingularValue] :
     \A i \in 1..(k - 1) : v[i] >= v[i + 1]}

SvdUnits(stacked, k) ==
  {u \in [1..k -> 1..stacked] :
     \A i, j \in 1..k : i # j => u[i] # u[j]}

\* the entries of the matrices handed to get_effective_degrees_of_freedom
UVals == {-1, 0, 1}

Matrices(rowset, colset, S) ==
  UNION {[1..r -> [1..c -> S]] : r \in rowset, c \in colset}

InitDecompose ==
  /\ pc = "call"
  /\ ret = [status |-> "none"]
  /\ \/ /\ op = "weighted_design_matrix_svd"
        /\ \E X \in Shapes(1..MaxDim, 1..MaxDim),
              S \in Shapes(0..MaxPenaltyRows, 1..MaxDim),
              n \in 1..MaxDim :
             IF ReachesSvd(n, X, S)
             THEN \E u \in SvdUnits(StackedRows(n, X, S), SvdRank(n, X, S)),
                     v \in SvdValues(SvdRank(n, X, S)) :
                    args = [X |-> X, S |-> S, n_weights |-> n,
                            svd_units |-> u, svd_values |-> v]
             ELSE args = [X |-> X, S |-> S, n_weights |-> n,
                          svd_units |-> <<>>, svd_values |-> <<>>]
     \/ /\ op = "get_effective_degrees_of_freedom"
        /\ \E U \in Matrices(1..2, 0..2, UVals) : args = [U |-> U]

Call_weighted_design_matrix_svd ==
  /\ pc = "call"
  /\ op = "weighted_design_matrix_svd"
  /\ ret' = weighted_design_matrix_svd(args.X, args.S, args.n_weights,
                                       args.svd_units, args.svd_values)
  /\ pc' = "done"
  /\ UNCHANGED <<op, args>>

Call_get_effective_degrees_of_freedom ==
  /\ pc = "call"
  /\ op = "get_effective_degrees_of_freedom"
  /\ ret' = [status |-> "ok", line |-> 49,
             value |-> get_effective_degrees_of_freedom(args.U)]
  /\ pc' = "done"
  /\ UNCHANGED <<op, args>>

NextDecompose ==
  Call_weighted_design_matrix_svd \/ Call_get_effective_degrees_of_freedom

SpecDecompose == InitDecompose /\ [][NextDecompose]_vars

(***************************************************************************)
(* Claims about the decomposition.                                         *)
(***************************************************************************)
\* X is n-by-p, S is m-by-p and weights has length n
ValidDims ==
  args.X.cols = args.S.cols /\ args.n_weights = args.X.rows

DecomposeDone == pc = "done" /\ op = "weighted_design_matrix_svd"

\* singular value i of the stacked system strictly exceeds the tolerance
\* max(singular values) * max(n, p) * eps
AboveTolerance(i) ==
  args.svd_values[i] * EpsInv
    > ArrayMax(args.svd_values) * Max2(args.X.rows, args.X.cols)

\* C5: the call fails with a dimension error whenever X and S differ in
\* their column counts or the length of weights differs from the rows of X.
C5_MismatchIsDimensionError ==
  (DecomposeDone /\ ~ValidDims) => ret.status = "ValueError"

\* C6: on dimensionally valid input the call returns (U, singular_values, Vt)
\* restricted to the same k retained components: U is p-by-k,
\* singular_values has length k, Vt is k-by-p, and k <= p.
C6_ReturnsConsistentTriple ==
  (DecomposeDone /\ ValidDims) =>
    /\ ret.status = "ok"
    /\ LET k == Len(ret.singular_values)
           p == args.X.cols
       IN  /\ Len(ret.U) = p
           /\ \A r \in 1..p : Len(ret.U[r]) = k
           /\ ret.Vt = [rows |-> k, cols |-> p]
           /\ k <= p

\* C7: a component is retained iff its singular value strictly exceeds the
\* tolerance, and every returned singular value is strictly positive.
C7_RetainedIffAboveTolerance ==
  (DecomposeDone /\ ValidDims) =>
    /\ ret.status = "ok"
    /\ LET kept == {i \in 1..Len(args.svd_values) : AboveTolerance(i)}
       IN  /\ Len(ret.singular_values) = Cardinality(kept)
           /\ \A i \in 1..Len(args.svd_values) :
                (i \in kept) <=>
                  (\E c \in 1..Len(ret.singular_values) :
                     /\ ret.singular_values[c] = args.svd_values[i]
                     /\ c = Cardinality({j \in kept : j <= i}))
    /\ \A c \in 1..Len(ret.singular_values) : ret.singular_values[c] > 0

\* C8: when every singular value is at or below the tolerance the call
\* raises nothing and returns an empty decomposition, whose effective
\* degrees of freedom are 0.
C8_DegenerateIsEmptyNotError ==
  (/\ DecomposeDone /\ ValidDims
   /\ \A i \in 1..Len(args.svd_values) : ~AboveTolerance(i)) =>
    /\ ret.status = "ok"
    /\ Len(ret.singular_values) = 0
    /\ \A r \in 1..Len(ret.U) : Len(ret.U[r]) = 0
    /\ get_effective_degrees_of_freedom(ret.U) = 0

\* X = 3x3 identity, no penalty rows, unit weights: the singular values are
\* all equal and nonzero and the left factor is the identity
IdentityScenario ==
  /\ args.X = [rows |-> 3, cols |-> 3]
  /\ args.S = [rows |-> 0, cols |-> 3]
  /\ args.n_weights = 3
  /\ args.svd_values = <<1, 1, 1>>
  /\ args.svd_units = <<1, 2, 3>>

\* C10: get_effective_degrees_of_freedom(U) is the sum of the squares of the
\* elements of U and is non-negative; for the U the decomposition returns on
\* valid input with p covariates it lies in [0, p], and it is 3 with 3
\* retained components for the 3x3 identity without penalty.
C10_DegreesOfFreedomWithinBounds ==
  /\ (pc = "done" /\ op = "get_effective_degrees_of_freedom") =>
       /\ ret.status = "ok"
       /\ ret.value >= 0
       /\ ret.value = Cardinality({rc \in (1..Len(args.U)) \X (1..2) :
                                     /\ rc[2] <= Len(args.U[rc[1]])
                                     /\ args.U[rc[1]][rc[2]] # 0})
  /\ (DecomposeDone /\ ValidDims) =>
       /\ ret.status = "ok"
       /\ get_effective_degrees_of_freedom(ret.U) \in 0..args.X.cols
       /\ IdentityScenario =>
            /\ Len(ret.singular_values) = 3
            /\ get_effective_degrees_of_freedom(ret.U) = 3

(***************************************************************************)
(* get_coefficient_covariance                                              *)
(***************************************************************************)
NRows(A) == Len(A)

NCols(A) == Len(A[1])

Transpose(A) == [c \in 1..NCols(A) |-> [r \in 1..NRows(A) |-> A[r][c]]]

\* A @ B for conformable matrices
MatMul(A, B) ==
  [r \in 1..NRows(A) |->
     [c \in 1..NCols(B) |->
        FSum([j \in 1..NCols(A) |-> FMul(A[r][j], B[j][c])])]]

\* np.diag of a one-dimensional array
Diag(v) ==
  [r \in 1..Len(v) |-> [c \in 1..Len(v) |-> IF r = c THEN v[r] ELSE FromInt(0)]]

AsFloatMatrix(A) == [r \in 1..Len(A) |-> AsFloats(A[r])]

get_coefficient_covariance(U, singular_values, Vt, scale) ==
  LET inverse == [i \in 1..Len(singular_values) |->
                    FDiv(FromInt(1), FromInt(singular_values[i]))]
      D == Diag(inverse)
  IN  \* line 67: Vt @ np.diag(1 / singular_values)
      IF NCols(Vt) # NRows(D) THEN Raise("ValueError", 67)
      \* line 67: ... @ U.T
      ELSE IF NCols(D) # NCols(U) THEN Raise("ValueError", 67)
      ELSE LET PKt == MatMul(MatMul(AsFloatMatrix(Vt), D),
                             Transpose(AsFloatMatrix(U)))
               G == MatMul(PKt, Transpose(PKt))
           IN  [status |-> "ok", line |-> 68,
                value |-> [r \in 1..NRows(G) |->
                             [c \in 1..NCols(G) |-> FMul(G[r][c], scale)]]]

\* the scales handed to get_coefficient_covariance
Scales == {FromInt(-1), FromInt(0), FromInt(2), NaN, Inf(1), Inf(-1)}

InitCovariance ==
  /\ pc = "call"
  /\ ret = [status |-> "none"]
  /\ op = "get_coefficient_covariance"
  /\ args \in [U : Matrices(1..2, 1..2, {0, 1}),
               singular_values : Arrays({1, 2}),
               Vt : Matrices(1..2, 1..2, {0, 1}),
               scale : Scales]

Call_get_coefficient_covariance ==
  /\ pc = "call"
  /\ op = "get_coefficient_covariance"
  /\ ret' = get_coefficient_covariance(args.U, args.singular_values,
                                       args.Vt, args.scale)
  /\ pc' = "done"
  /\ UNCHANGED <<op, args>>

NextCovariance == Call_get_coefficient_covariance

SpecCovariance == InitCovariance /\ [][NextCovariance]_vars

(***************************************************************************)
(* The whole module: a call of any of the six functions.                   *)
(***************************************************************************)
Init == InitAic \/ InitScale \/ InitDecompose \/ InitCovariance

Next == NextAic \/ NextScale \/ NextDecompose \/ NextCovariance

Spec == Init /\ [][Next]_vars

InvalidScale(x) == ~IsFinite(x) \/ x.n < 0

\* C4: get_coefficient_covariance fails, returning no matrix, whenever scale
\* is negative or not finite, whatever U, singular_values and Vt are.
C4_InvalidScaleFails ==
  (/\ pc = "done" /\ op = "get_coefficient_covariance"
   /\ InvalidScale(args.scale)) =>
    ret.status # "ok"

====
